---------------------------- MODULE Spec2Model ----------------------------
(***************************************************************************)
(* Model of src/main.py: the investment / loan-payment calculator.         *)
(*                                                                         *)
(*   - the formula library (the calc_ methods of CalcFactory), helpers,    *)
(*   - the scenario registry (CalcFactory.get_calc_function),              *)
(*   - the amortization loop of calc_constant_monthly_loan_payments,       *)
(*     one action per loop iteration,                                      *)
(*   - the interactive loop (main_interactive, get_arguments,              *)
(*     get_input_with_retry), one action per line read from the console.   *)
(*                                                                         *)
(* Numbers.  Python floats are modelled as fixed-point numbers: an integer *)
(* count of units, Scale units to 1.0 and UnitsPerCent units to 0.01.      *)
(* Every multiplication and division is rounded to the nearest unit, ties  *)
(* to even, the way IEEE-754 rounds every operation to the nearest double; *)
(* addition, subtraction, min and comparison are exact.  Values below a    *)
(* cent exist (UnitsPerCent > 1), so round(x, 2) is not the identity, and  *)
(* a quotient can round to zero (underflow).  Binary representation error  *)
(* of decimal fractions (0.1 + 0.2 /= 0.3) is outside this model.          *)
(***************************************************************************)
EXTENDS Integers, Sequences, FiniteSets, TLC

(***************************************************************************)
(* Bounds of the model.                                                    *)
(***************************************************************************)
UnitsPerCent == 5
MaxUnits == 6
MaxDollars == 2
MaxPrice == 2
MaxPrices == 2

Scale == 100 * UnitsPerCent

(***************************************************************************)
(* Fixed-point arithmetic.                                                 *)
(***************************************************************************)
Abs(x) == IF x < 0 THEN -x ELSE x

Min(a, b) == IF a <= b THEN a ELSE b

\* n / d rounded to the nearest integer, ties to even (d /= 0).
RoundDiv(n, d) ==
    LET nn == IF d < 0 THEN -n ELSE n
        dd == Abs(d)
        q  == nn \div dd
        r  == nn % dd
    IN  IF 2 * r < dd THEN q
        ELSE IF 2 * r > dd THEN q + 1
        ELSE IF q % 2 = 0 THEN q ELSE q + 1

FromInt(n) == n * Scale

FMul(a, b) == RoundDiv(a * b, Scale)

\* a / b for b /= 0; the callers raise ZeroDivisionError for b = 0.
FDiv(a, b) == RoundDiv(a * Scale, b)

\* round(x, 2)
Round2(x) == RoundDiv(x, UnitsPerCent) * UnitsPerCent

None == [tag |-> "None"]

Return(v) == [tag |-> "return", value |-> v]

Raise(e) == [tag |-> "raise", exc |-> e]

RECURSIVE SumSeq(_)
SumSeq(s) == IF s = <<>> THEN 0 ELSE Head(s) + SumSeq(Tail(s))

(***************************************************************************)
(* Result model and argument schema (lines 11-41).                         *)
(***************************************************************************)
DEFAULT_INVEST_SUGGESTION ==
    [SharesToBuy |-> FromInt(-1),
     InvestmentValue |-> FromInt(-1),
     WillReachTargetBalanceAtPrice |-> FromInt(-1),
     CurrentPrice |-> FromInt(-1),
     TargetBalance |-> FromInt(-1)]

CalcArgFields ==
    <<"current_price", "old_price", "target_price", "target_balance",
      "intended_investment_amount", "next_prices", "verbose",
      "starting_balance", "monthly_payment", "apr", "starting_month",
      "starting_year">>

FieldSet == {CalcArgFields[k] : k \in 1..Len(CalcArgFields)}

\* CalcArguments(**flagged): every field defaults to False.
CalcArguments(flagged) == [f \in FieldSet |-> f \in flagged]

get_total_payments(rmp) ==
    SumSeq([k \in 1..Len(rmp) |-> rmp[k].monthly_payment])

get_total_interest(rmp) ==
    SumSeq([k \in 1..Len(rmp) |->
              rmp[k].balance_after_payment_plus_interest
                - rmp[k].balance_after_payment])

(***************************************************************************)
(* GregorianLikeCalendarMonthUtils (lines 43-82).  A month argument is an  *)
(* int or a str; strings are taken in their .lower().title() form.         *)
(***************************************************************************)
MonthAbbr ==
    <<"Jan", "Feb", "Mar", "Apr", "May", "Jun",
      "Jul", "Aug", "Sep", "Oct", "Nov", "Dec">>

MonthName ==
    <<"January", "February", "March", "April", "May", "June", "July",
      "August", "September", "October", "November", "December">>

\* A Python object of one of the types a caller may pass.
IntVal(n) == [type |-> "int", v |-> n, s |-> ""]

StrVal(str) == [type |-> "str", v |-> 0, s |-> str]

\* A str that int() accepts is modelled by its IntVal; a StrVal never
\* parses as an integer.  An int outside 1..12 has no .lower(): raises.
get_month_idx(month) ==
    IF month.type = "int"
    THEN IF month.v \in 1..12 THEN Return(month.v)
         ELSE Raise("Exception")
    ELSE IF \E k \in 1..12 : MonthAbbr[k] = month.s
         THEN Return(CHOOSE k \in 1..12 : MonthAbbr[k] = month.s)
         ELSE IF \E k \in 1..12 : MonthName[k] = month.s
              THEN Return(CHOOSE k \in 1..12 : MonthName[k] = month.s)
              ELSE Raise("Exception")

get_month_year_display(m, y) == <<MonthAbbr[m], y>>

get_next_month(m, y) == IF m = 12 THEN <<1, y + 1>> ELSE <<m + 1, y>>

(***************************************************************************)
(* Helper formulas (lines 273-295).  A formula's outcome is Return(value)  *)
(* or Raise(exception): true division by zero raises ZeroDivisionError.    *)
(***************************************************************************)
get_investment_value_when_price_changes(investment_amount, current_price, next_price) ==
    IF current_price = 0 THEN Raise("ZeroDivisionError")
    ELSE LET nbr_of_shares == FDiv(investment_amount, current_price)
             value == FMul(nbr_of_shares, next_price)
             profit == value - investment_amount
         IN  Return([InitialInvestment |-> investment_amount,
                     Price |-> current_price,
                     Shares |-> nbr_of_shares,
                     NextPrice |-> next_price,
                     Value |-> value,
                     Profit |-> profit])

get_price_change_rate_from_old_price(old_price, current_price) ==
    IF old_price = 0 THEN Raise("ZeroDivisionError")
    ELSE Return(FDiv(current_price, old_price))

get_suggested_investment_given_target_balance_and_target_price(current_price, target_price, target_balance) ==
    IF target_price = 0 THEN Raise("ZeroDivisionError")
    ELSE LET shares_to_buy == FDiv(target_balance, target_price)
             estimated_investment == FMul(current_price, shares_to_buy)
         IN  Return([SharesToBuy |-> shares_to_buy,
                     InvestmentValue |-> estimated_investment,
                     WillReachTargetBalanceAtPrice |-> target_price,
                     CurrentPrice |-> current_price,
                     TargetBalance |-> target_balance])

(***************************************************************************)
(* CalcFactory formulas (lines 207-239).  verbose only selects logging.    *)
(***************************************************************************)
calc_invest_given_previous_growth(current_price, old_price, target_balance) ==
    LET rate_of_change ==
            get_price_change_rate_from_old_price(old_price, current_price)
    IN  IF rate_of_change.tag = "raise" THEN rate_of_change
        ELSE LET next_price == FMul(current_price, rate_of_change.value)
             IN  IF next_price = 0 THEN Return(DEFAULT_INVEST_SUGGESTION)
                 ELSE get_suggested_investment_given_target_balance_and_target_price(
                          current_price, next_price, target_balance)

\* Mutant: no guard for a zero target price.
calc_invest_given_target_price_unguarded(current_price, target_price, target_balance) ==
    get_suggested_investment_given_target_balance_and_target_price(
        current_price, target_price, target_balance)

calc_invest_given_target_price(current_price, target_price, target_balance) ==
    IF target_price = 0 THEN Return(DEFAULT_INVEST_SUGGESTION)
    ELSE get_suggested_investment_given_target_balance_and_target_price(
             current_price, target_price, target_balance)

\* Mutant: the two prices keep their names, the price paid is current_price.
calc_invest_for_missed_opportunity_swapped(intended_investment_amount, current_price, old_price) ==
    get_investment_value_when_price_changes(
        intended_investment_amount, current_price, old_price)

calc_invest_for_missed_opportunity(intended_investment_amount, current_price, old_price) ==
    get_investment_value_when_price_changes(
        intended_investment_amount, old_price, current_price)

\* The list comprehension raises at its first element when current_price
\* is 0, and returns [] for an empty next_prices whatever current_price is.
calc_invest_potential_investment(intended_investment_amount, current_price, next_prices) ==
    IF next_prices /= <<>> /\ current_price = 0
    THEN Raise("ZeroDivisionError")
    ELSE Return([k \in 1..Len(next_prices) |->
                   get_investment_value_when_price_changes(
                       intended_investment_amount, current_price,
                       next_prices[k]).value])

(***************************************************************************)
(* CalcType (lines 172-178) and the registry (lines 181-204).              *)
(***************************************************************************)
EnumVal(n) == [type |-> "CalcType", v |-> n, s |-> ""]

PREVIOUS_GROWTH == EnumVal(0)

TARGET_PRICE == EnumVal(1)

MISSED_INVESTMENT == EnumVal(2)

POTENTIAL_INVESTMENT == EnumVal(3)

CONSTANT_LOAN_OR_CREDIT_PAYMENT == EnumVal(4)

CalcTypeMembers ==
    {PREVIOUS_GROWTH, TARGET_PRICE, MISSED_INVESTMENT, POTENTIAL_INVESTMENT,
     CONSTANT_LOAN_OR_CREDIT_PAYMENT}

\* CalcType(value): the member with that value, ValueError when there is none.
CalcType(value) ==
    IF EnumVal(value) \in CalcTypeMembers THEN Return(EnumVal(value))
    ELSE Raise("ValueError")

Selection(f, flagged) ==
    [tag |-> "return", calc_function |-> f, arg_specs |-> CalcArguments(flagged)]

\* Mutant: the MISSED_INVESTMENT schema flags target_price for old_price.
get_calc_function_schema_slip(case) ==
    IF case = PREVIOUS_GROWTH
    THEN Selection("calc_invest_given_previous_growth",
                   {"current_price", "old_price", "target_balance", "verbose"})
    ELSE IF case = TARGET_PRICE
    THEN Selection("calc_invest_given_target_price",
                   {"current_price", "target_price", "target_balance", "verbose"})
    ELSE IF case = MISSED_INVESTMENT
    THEN Selection("calc_invest_for_missed_opportunity",
                   {"intended_investment_amount", "current_price",
                    "target_price", "verbose"})
    ELSE IF case = POTENTIAL_INVESTMENT
    THEN Selection("calc_invest_potential_investment",
                   {"intended_investment_amount", "current_price", "next_prices",
                    "verbose"})
    ELSE IF case = CONSTANT_LOAN_OR_CREDIT_PAYMENT
    THEN Selection("calc_constant_monthly_loan_payments",
                   {"starting_balance", "monthly_payment", "apr",
                    "starting_month", "starting_year", "verbose"})
    ELSE None

\* The if/elif chain; a case that equals no member falls off the end of the
\* function, which returns None.
get_calc_function(case) ==
    IF case = PREVIOUS_GROWTH
    THEN Selection("calc_invest_given_previous_growth",
                   {"current_price", "old_price", "target_balance", "verbose"})
    ELSE IF case = TARGET_PRICE
    THEN Selection("calc_invest_given_target_price",
                   {"current_price", "target_price", "target_balance", "verbose"})
    ELSE IF case = MISSED_INVESTMENT
    THEN Selection("calc_invest_for_missed_opportunity",
                   {"intended_investment_amount", "current_price", "old_price",
                    "verbose"})
    ELSE IF case = POTENTIAL_INVESTMENT
    THEN Selection("calc_invest_potential_investment",
                   {"intended_investment_amount", "current_price", "next_prices",
                    "verbose"})
    ELSE IF case = CONSTANT_LOAN_OR_CREDIT_PAYMENT
    THEN Selection("calc_constant_monthly_loan_payments",
                   {"starting_balance", "monthly_payment", "apr",
                    "starting_month", "starting_year", "verbose"})
    ELSE None

\* The def lines of the five formulas: their formal parameters.
FormalParams(f) ==
    CASE f = "calc_invest_given_previous_growth" ->
            <<"current_price", "old_price", "target_balance", "verbose">>
      [] f = "calc_invest_given_target_price" ->
            <<"current_price", "target_price", "target_balance", "verbose">>
      [] f = "calc_invest_for_missed_opportunity" ->
            <<"intended_investment_amount", "current_price", "old_price",
              "verbose">>
      [] f = "calc_invest_potential_investment" ->
            <<"intended_investment_amount", "current_price", "next_prices",
              "verbose">>
      [] f = "calc_constant_monthly_loan_payments" ->
            <<"starting_balance", "monthly_payment", "apr", "starting_month",
              "starting_year", "verbose">>

ParamSet(f) == {FormalParams(f)[k] : k \in 1..Len(FormalParams(f))}

\* calc_function(**kwargs) binds: no unexpected keyword, and every
\* parameter without a default (all but verbose) is given.
Binds(f, kwargs) ==
    /\ DOMAIN kwargs \subseteq ParamSet(f)
    /\ ParamSet(f) \ {"verbose"} \subseteq DOMAIN kwargs

\* The four formulas that return in one step, called as f(**kwargs).
CallFormula(f, kwargs) ==
    IF ~Binds(f, kwargs) THEN Raise("TypeError")
    ELSE CASE f = "calc_invest_given_previous_growth" ->
                calc_invest_given_previous_growth(
                    kwargs.current_price, kwargs.old_price,
                    kwargs.target_balance)
           [] f = "calc_invest_given_target_price" ->
                calc_invest_given_target_price(
                    kwargs.current_price, kwargs.target_price,
                    kwargs.target_balance)
           [] f = "calc_invest_for_missed_opportunity" ->
                calc_invest_for_missed_opportunity(
                    kwargs.intended_investment_amount, kwargs.current_price,
                    kwargs.old_price)
           [] f = "calc_invest_potential_investment" ->
                calc_invest_potential_investment(
                    kwargs.intended_investment_amount, kwargs.current_price,
                    kwargs.next_prices)

\* accepted_arguments (line 385): the flagged fields, in CalcArgFields order.
AcceptedArguments(arg_specs) ==
    SelectSeq(CalcArgFields, LAMBDA f : arg_specs[f])

(***************************************************************************)
(* State.                                                                  *)
(*   pc, case, selected, calc_arg, result: the caller's position, the      *)
(*     scenario it chose, what get_calc_function returned, the keyword     *)
(*     arguments it built and the outcome of the formula it called;        *)
(*   loan_pc .. warned: the frame of calc_constant_monthly_loan_payments   *)
(*     (its locals, and whether the cap warning was printed);              *)
(*   inpt .. log: the locals of main_interactive / get_arguments /         *)
(*     get_input_with_retry and the last line the loop logged.             *)
(***************************************************************************)
VARIABLES pc, case, selected, calc_arg, result,
          loan_pc, remaining_balance, monthly_payment, monthly_apr, year,
          month_idx, remaining_payments, i, nxt_monthly_payment,
          balance_after_payment, balance_after_payment_plus_interest, warned,
          inpt, input_value, arg_idx, attempt, log

callVars == <<pc, case, selected, calc_arg>>

loanVars ==
    <<loan_pc, remaining_balance, monthly_payment, monthly_apr, year,
      month_idx, remaining_payments, i, nxt_monthly_payment,
      balance_after_payment, balance_after_payment_plus_interest, warned>>

mainVars == <<inpt, input_value, arg_idx, attempt, log>>

vars == <<callVars, result, loanVars, mainVars>>

(***************************************************************************)
(* calc_constant_monthly_loan_payments (lines 242-271).                    *)
(***************************************************************************)
limit == 12 * 5

\* No frame: the function has not been called.
LoanIdle ==
    /\ loan_pc = "idle"
    /\ remaining_balance = 0 /\ monthly_payment = 0 /\ monthly_apr = 0
    /\ year = 0 /\ month_idx = 0 /\ remaining_payments = <<>> /\ i = 0
    /\ nxt_monthly_payment = 0 /\ balance_after_payment = 0
    /\ balance_after_payment_plus_interest = 0 /\ warned = FALSE

\* Mutant: the annual rate is applied every month (no division by 12).
MonthlyAprAnnual(apr) == RoundDiv(apr, 100)

\* apr / 12 / 100
MonthlyApr(apr) == RoundDiv(RoundDiv(apr, 12), 100)

\* Lines 243-249: the call binds the arguments and sets the locals up;
\* get_month_idx raises out of the function for a month it cannot parse.
LoanEnter(kwargs) ==
    LET m == get_month_idx(kwargs.starting_month)
    IN  /\ remaining_balance' = kwargs.starting_balance
        /\ monthly_payment' = kwargs.monthly_payment
        /\ year' = kwargs.starting_year
        /\ IF m.tag = "raise"
           THEN /\ loan_pc' = "raised"
                /\ result' = m
                /\ month_idx' = 0
                /\ monthly_apr' = 0
           ELSE /\ loan_pc' = "loop"
                /\ result' = None
                /\ month_idx' = m.value
                /\ monthly_apr' = MonthlyApr(kwargs.apr)
        /\ remaining_payments' = <<>>
        /\ i' = 0
        /\ warned' = FALSE
        /\ UNCHANGED <<nxt_monthly_payment, balance_after_payment,
                       balance_after_payment_plus_interest>>

\* Mutant: the loop without its iteration cap.
LoopConditionNoCap == remaining_balance > 0

\* The loop condition of line 250.
LoopCondition == i < limit /\ remaining_balance > 0

\* Mutant: the payment is not clamped to the balance.
NextPaymentUnclamped(payment, balance) == payment

\* Mutant: max in place of min.
NextPaymentMax(payment, balance) == IF payment >= balance THEN payment ELSE balance

\* min(monthly_payment, remaining_balance), line 251.
NextPayment(payment, balance) == Min(payment, balance)

RemainingMonthlyPayment(n, label, rb, mp, bap, bapi) ==
    [payment_number |-> n,
     month_and_year |-> label,
     remaining_balance |-> rb,
     monthly_payment |-> mp,
     balance_after_payment |-> bap,
     balance_after_payment_plus_interest |-> bapi]

\* One iteration of the while loop, lines 250-266.
LoanIter ==
    /\ loan_pc = "loop"
    /\ LoopCondition
    /\ LET nxt == NextPayment(monthly_payment, remaining_balance)
           bap == remaining_balance - nxt
           bapi == bap + FMul(bap, monthly_apr)
           nm == get_next_month(month_idx, year)
       IN  /\ nxt_monthly_payment' = nxt
           /\ balance_after_payment' = bap
           /\ balance_after_payment_plus_interest' = bapi
           /\ remaining_payments' =
                  Append(remaining_payments,
                         RemainingMonthlyPayment(
                             i + 1,
                             get_month_year_display(month_idx, year),
                             Round2(remaining_balance), Round2(nxt),
                             Round2(bap), Round2(bapi)))
           /\ i' = i + 1
           /\ month_idx' = nm[1]
           /\ year' = nm[2]
           /\ monthly_payment' = nxt
           /\ remaining_balance' = bapi
    /\ UNCHANGED <<loan_pc, monthly_apr, warned, result, callVars, mainVars>>

\* Mutant: the warning only while the balance is still positive.
CapWarningPositive == i = limit /\ remaining_balance > 0

\* The test of line 268 that prints the "Reached limits" warning.
CapWarning == i = limit

\* Loop exit, lines 268-271: the warning, then the return.
LoanExit ==
    /\ loan_pc = "loop"
    /\ ~LoopCondition
    /\ warned' = CapWarning
    /\ loan_pc' = "done"
    /\ result' = Return(remaining_payments)
    /\ UNCHANGED <<remaining_balance, monthly_payment, monthly_apr, year,
                   month_idx, remaining_payments, i, nxt_monthly_payment,
                   balance_after_payment, balance_after_payment_plus_interest,
                   callVars, mainVars>>

(***************************************************************************)
(* Direct use of the core: a caller picks a scenario, asks the registry    *)
(* for the formula and its schema, builds one keyword argument per flagged *)
(* schema field and calls the formula (the protocol of lines 383-393),     *)
(* with argument values of any sign, zero included.                        *)
(***************************************************************************)
SmallUnits == -1..MaxUnits

Balances ==
    SmallUnits \cup {FromInt(d) : d \in 1..MaxDollars}
               \cup {FromInt(1) + 2, limit, FromInt(limit)}

Payments == SmallUnits \cup {FromInt(d) : d \in 1..MaxDollars}

Aprs == {FromInt(a) : a \in {-12, 0, 12, 120}}

Months == {IntVal(12), IntVal(13), StrVal("Feb"), StrVal("March"), StrVal("Foo")}

Years == {2024}

PriceValues == {0, 1} \cup {FromInt(k) : k \in -1..MaxPrice}

NextPricesValues ==
    UNION {[1..n -> {0, FromInt(1)}] : n \in 0..MaxPrices}

\* Values that are no member of CalcType: the raw menu numbers and None.
NonMembers == {IntVal(4), IntVal(5), [type |-> "NoneType", v |-> 0, s |-> ""]}

Cases == CalcTypeMembers \cup NonMembers

ValuesOf(f) ==
    CASE f = "next_prices" -> NextPricesValues
      [] f = "verbose" -> {TRUE}
      [] f = "starting_balance" -> Balances
      [] f = "monthly_payment" -> Payments
      [] f = "apr" -> Aprs
      [] f = "starting_month" -> Months
      [] f = "starting_year" -> Years
      [] OTHER -> PriceValues

\* Every dict with exactly the keys of fields, each with a value of its kind.
RECURSIVE ArgSets(_)
ArgSets(fields) ==
    IF fields = <<>> THEN {<<>>}
    ELSE {(Head(fields) :> v) @@ rest :
            v \in ValuesOf(Head(fields)), rest \in ArgSets(Tail(fields))}

MainIdle ==
    /\ inpt = None /\ input_value = -2 /\ arg_idx = 0 /\ attempt = 0
    /\ log = None

Init ==
    /\ pc = "start" /\ case = None /\ selected = None /\ calc_arg = <<>>
    /\ result = None
    /\ LoanIdle
    /\ MainIdle

\* get_calc_function(case=c), line 383.
SelectScenario(c) ==
    /\ pc = "start"
    /\ case' = c
    /\ selected' = get_calc_function(c)
    /\ pc' = IF get_calc_function(c) = None THEN "no_formula" ELSE "selected"
    /\ UNCHANGED <<calc_arg, result, loanVars, mainVars>>

IsLoan(sel) == sel.calc_function = "calc_constant_monthly_loan_payments"

\* calc_function(**calc_arg), line 393, for a formula that returns at once.
Invoke ==
    /\ pc = "selected"
    /\ ~IsLoan(selected)
    /\ \E kwargs \in ArgSets(AcceptedArguments(selected.arg_specs)) :
          /\ calc_arg' = kwargs
          /\ result' = CallFormula(selected.calc_function, kwargs)
    /\ pc' = "called"
    /\ UNCHANGED <<case, selected, loanVars, mainVars>>

\* calc_function(**calc_arg), line 393, entering the amortization loop.
InvokeLoan ==
    /\ pc = "selected"
    /\ IsLoan(selected)
    /\ \E kwargs \in ArgSets(AcceptedArguments(selected.arg_specs)) :
          /\ calc_arg' = kwargs
          /\ IF Binds(selected.calc_function, kwargs)
             THEN LoanEnter(kwargs)
             ELSE /\ result' = Raise("TypeError")
                  /\ UNCHANGED loanVars
    /\ pc' = "called"
    /\ UNCHANGED <<case, selected, mainVars>>

Next ==
    \/ \E c \in Cases : SelectScenario(c)
    \/ Invoke
    \/ InvokeLoan
    \/ LoanIter
    \/ LoanExit

Spec == Init /\ [][Next]_vars

\* The interpreter runs a function that was called to its return.
LiveSpec == Spec /\ WF_vars(LoanIter) /\ WF_vars(LoanExit)

(***************************************************************************)
(* The interactive loop (lines 297-398).  A line typed at the console is a *)
(* token: 'exit', a decimal integer, a decimal with a fraction, a word, or *)
(* a ', '-separated list of numbers.                                       *)
(***************************************************************************)
Tok(kind, n, str, l) == [kind |-> kind, n |-> n, s |-> str, l |-> l]

ExitTok == Tok("exit", 0, "exit", <<>>)

\* The integer n, as typed.
IntTok(n) == Tok("int", n, "", <<>>)

\* A number with a fractional part, of u units.
DecTok(u) == Tok("dec", u, "", <<>>)

WordTok(str) == Tok("word", 0, str, <<>>)

\* Several numbers separated by ', '.
ListTok(l) == Tok("list", 0, "", l)

NoTok == Tok("none", 0, "", <<>>)

\* float(inpt) and int(inpt): ValueError for what they cannot parse.
ToFloat(tok) ==
    CASE tok.kind = "int" -> Return(FromInt(tok.n))
      [] tok.kind = "dec" -> Return(tok.n)
      [] OTHER -> Raise("ValueError")

ToInt(tok) ==
    IF tok.kind = "int" THEN Return(tok.n) ELSE Raise("ValueError")

\* Each validator returns (is_valid, transformation) or raises.
transform_and_validate_to_float(tok) ==
    IF ToFloat(tok).tag = "raise" THEN ToFloat(tok)
    ELSE Return(<<ToFloat(tok).value > 0, ToFloat(tok).value>>)

transform_and_validate_to_int(tok) ==
    IF ToInt(tok).tag = "raise" THEN ToInt(tok)
    ELSE Return(<<ToInt(tok).value > 0, ToInt(tok).value>>)

transform_and_validate_str_with_sep_to_float_list(tok) ==
    CASE tok.kind = "list" -> Return(<<Len(tok.l) > 0, tok.l>>)
      [] tok.kind \in {"int", "dec"} -> Return(<<TRUE, <<ToFloat(tok).value>> >>)
      [] OTHER -> Raise("ValueError")

transform_and_validate_month_input(tok) ==
    LET value == get_month_idx(IF tok.kind = "int" THEN IntVal(tok.n)
                               ELSE StrVal(tok.s))
    IN  IF value.tag = "raise" THEN value
        ELSE Return(<<TRUE, IntVal(value.value)>>)

\* Line 369: "int(inpt) >= -1 or int(inpt) <= 3" holds of every integer.
main_input_validation(tok) ==
    IF ToInt(tok).tag = "raise" THEN ToInt(tok)
    ELSE Return(<<ToInt(tok).value >= -1 \/ ToInt(tok).value <= 3,
                  ToInt(tok).value>>)

\* The validator get_arguments hands to get_input_with_retry (lines 341-352).
Validate(accepted_arg, tok) ==
    CASE accepted_arg = "next_prices" ->
            transform_and_validate_str_with_sep_to_float_list(tok)
      [] accepted_arg = "starting_month" ->
            transform_and_validate_month_input(tok)
      [] accepted_arg = "starting_year" -> transform_and_validate_to_int(tok)
      [] OTHER -> transform_and_validate_to_float(tok)

\* Mutant: one read too many.
RetryAllowedOffByOne(att, limit_of_retries) == att <= limit_of_retries

\* May the loop of get_input_with_retry read again after attempt reads?
RetryAllowed(att, limit_of_retries) == att < limit_of_retries

\* One pass of the loop of get_input_with_retry (lines 302-316) on the line
\* tok, whose validation gave v, after att earlier attempts: the function
\* returns 'exit', returns the transformation, reads again, or raises.
get_input_with_retry(tok, v, att, limit_of_retries) ==
    IF tok = ExitTok THEN [tag |-> "exit"]
    ELSE IF v.tag = "return" /\ v.value[1]
         THEN [tag |-> "value", value |-> v.value[2]]
         ELSE IF RetryAllowed(att + 1, limit_of_retries) THEN [tag |-> "retry"]
              ELSE Raise("Reached max retries or entered 'exit' ")

max_retries == 3

Log(kind, msg) == [kind |-> kind, msg |-> msg]

MenuTokens ==
    {ExitTok, WordTok("abc"), DecTok(1)} \cup {IntTok(n) : n \in -2..5}

ArgTokens ==
    {ExitTok, WordTok("abc"), WordTok("Feb"), IntTok(0), DecTok(1),
     ListTok(<<FromInt(1), 0>>)} \cup {IntTok(n) : n \in 1..MaxPrice}

\* get_arguments stores None for verbose without prompting (lines 338-358).
RECURSIVE SkipUnprompted(_, _, _)
SkipUnprompted(accepted, idx, args) ==
    IF idx <= Len(accepted) /\ accepted[idx] = "verbose"
    THEN SkipUnprompted(accepted, idx + 1, ("verbose" :> None) @@ args)
    ELSE [idx |-> idx, args |-> args]

MainInit ==
    /\ pc = "loop_test" /\ case = None /\ selected = None /\ calc_arg = <<>>
    /\ result = None
    /\ LoanIdle
    /\ inpt = NoTok /\ input_value = -2 /\ arg_idx = 0 /\ attempt = 0
    /\ log = Log("none", "")

\* The except clause of lines 395-398.
Except(msg) ==
    /\ log' = Log("error", msg)
    /\ input_value' = -2
    /\ pc' = "loop_test"

\* Line 371, then line 372.  What the next iteration assigns before it
\* reads it (every local but input_value) is cleared here.
LoopTest ==
    /\ pc = "loop_test"
    /\ IF input_value /= -1
       THEN /\ pc' = "menu"
            /\ log' = Log("info", "CalcInvest v0")
       ELSE /\ pc' = "exited"
            /\ log' = log
    /\ case' = None /\ selected' = None /\ calc_arg' = <<>> /\ result' = None
    /\ inpt' = NoTok /\ arg_idx' = 0 /\ attempt' = 0
    /\ loan_pc' = "idle"
    /\ remaining_balance' = 0 /\ monthly_payment' = 0 /\ monthly_apr' = 0
    /\ year' = 0 /\ month_idx' = 0 /\ remaining_payments' = <<>> /\ i' = 0
    /\ nxt_monthly_payment' = 0 /\ balance_after_payment' = 0
    /\ balance_after_payment_plus_interest' = 0 /\ warned' = FALSE
    /\ UNCHANGED input_value

\* The menu prompt, lines 374-386 up to the first argument prompt.  The
\* finally clause of get_input_with_retry counts the read in every case.
MenuInput ==
    /\ pc = "menu"
    /\ \E tok \in MenuTokens :
        LET r == get_input_with_retry(tok, main_input_validation(tok),
                                      attempt, 1)
            ct == CalcType(r.value)
            sel == get_calc_function(ct.value)
            first == SkipUnprompted(AcceptedArguments(sel.arg_specs), 1, <<>>)
        IN  /\ inpt' = tok
            /\ CASE r.tag = "exit" ->
                      /\ pc' = "exited"
                      /\ attempt' = attempt + 1
                      /\ UNCHANGED <<log, input_value, case, selected, calc_arg,
                                     arg_idx>>
                 [] r.tag = "raise" ->
                      /\ Except(r.exc)
                      /\ attempt' = attempt + 1
                      /\ UNCHANGED <<case, selected, calc_arg, arg_idx>>
                 [] r.tag = "retry" ->
                      /\ attempt' = attempt + 1
                      /\ UNCHANGED <<pc, log, input_value, case, selected,
                                     calc_arg, arg_idx>>
                 [] r.tag = "value" /\ r.value = -1 ->
                      /\ input_value' = -1
                      /\ pc' = "loop_test"
                      /\ attempt' = attempt + 1
                      /\ UNCHANGED <<log, case, selected, calc_arg, arg_idx>>
                 [] r.tag = "value" /\ r.value /= -1 /\ ct.tag = "raise" ->
                      /\ Except(ct.exc)
                      /\ attempt' = attempt + 1
                      /\ UNCHANGED <<case, selected, calc_arg, arg_idx>>
                 [] r.tag = "value" /\ r.value /= -1 /\ ct.tag = "return" ->
                      /\ case' = ct.value
                      /\ selected' = sel
                      /\ IF sel = None
                         THEN /\ Except("TypeError")
                              /\ attempt' = attempt + 1
                              /\ UNCHANGED <<calc_arg, arg_idx>>
                         ELSE /\ input_value' = r.value
                              /\ calc_arg' = first.args
                              /\ arg_idx' = first.idx
                              /\ attempt' = 0
                              /\ pc' = "args"
                              /\ UNCHANGED log
    /\ UNCHANGED <<result, loanVars>>

\* One line read at an argument prompt (get_arguments, lines 337-359), and,
\* when it completes the arguments, the call of the formula (lines 387-393).
ArgInput ==
    /\ pc = "args"
    /\ \E tok \in ArgTokens :
        LET accepted == AcceptedArguments(selected.arg_specs)
            name == accepted[arg_idx]
            r == get_input_with_retry(tok, Validate(name, tok), attempt,
                                      max_retries)
            nxt == SkipUnprompted(accepted, arg_idx + 1,
                                  (name :> r.value) @@ calc_arg)
            kwargs == ("verbose" :> TRUE) @@ nxt.args
            f == selected.calc_function
        IN  /\ inpt' = tok
            /\ CASE r.tag = "exit" ->
                      /\ Except("Cancelled")
                      /\ calc_arg' = <<>>
                      /\ attempt' = attempt + 1
                      /\ UNCHANGED <<arg_idx, result, loanVars>>
                 [] r.tag = "raise" ->
                      /\ Except(r.exc)
                      /\ calc_arg' = <<>>
                      /\ attempt' = attempt + 1
                      /\ UNCHANGED <<arg_idx, result, loanVars>>
                 [] r.tag = "retry" ->
                      /\ attempt' = attempt + 1
                      /\ UNCHANGED <<pc, log, input_value, calc_arg, arg_idx,
                                     result, loanVars>>
                 [] r.tag = "value" /\ nxt.idx <= Len(accepted) ->
                      /\ calc_arg' = nxt.args
                      /\ arg_idx' = nxt.idx
                      /\ attempt' = 0
                      /\ UNCHANGED <<pc, log, input_value, result, loanVars>>
                 [] r.tag = "value" /\ nxt.idx > Len(accepted) /\ ~IsLoan(selected) ->
                      /\ calc_arg' = kwargs
                      /\ result' = CallFormula(f, kwargs)
                      /\ IF CallFormula(f, kwargs).tag = "raise"
                         THEN Except(CallFormula(f, kwargs).exc)
                         ELSE /\ log' = Log("success", "")
                              /\ pc' = "loop_test"
                              /\ UNCHANGED input_value
                      /\ UNCHANGED <<arg_idx, attempt, loanVars>>
                 [] r.tag = "value" /\ nxt.idx > Len(accepted) /\ IsLoan(selected) ->
                      /\ calc_arg' = kwargs
                      /\ IF Binds(f, kwargs)
                         THEN LoanEnter(kwargs)
                         ELSE /\ result' = Raise("TypeError")
                              /\ UNCHANGED loanVars
                      /\ IF Binds(f, kwargs)
                            /\ get_month_idx(kwargs.starting_month).tag = "return"
                         THEN /\ pc' = "call"
                              /\ UNCHANGED <<log, input_value>>
                         ELSE Except("Exception")
                      /\ UNCHANGED <<arg_idx, attempt>>
    /\ UNCHANGED <<case, selected>>

\* log.success(calc_function(**calc_arg)), line 393, once the loan formula
\* has returned.
MainReport ==
    /\ pc = "call"
    /\ loan_pc = "done"
    /\ log' = Log("success", "")
    /\ pc' = "loop_test"
    /\ UNCHANGED <<case, selected, calc_arg, result, loanVars, inpt,
                   input_value, arg_idx, attempt>>

MainNext ==
    \/ LoopTest
    \/ MenuInput
    \/ ArgInput
    \/ LoanIter
    \/ LoanExit
    \/ MainReport

MainSpec == MainInit /\ [][MainNext]_vars

(***************************************************************************)
(* Claims about the amortization loop.                                     *)
(***************************************************************************)
LoanCalled == loan_pc \in {"loop", "done"}

LoanDone == loan_pc = "done"

Rows == remaining_payments

\* The arguments are in the range the schedule claims speak about.
PositiveInputs ==
    /\ calc_arg.starting_balance > 0
    /\ calc_arg.monthly_payment > 0
    /\ calc_arg.apr >= 0

WholeDollars(x) == x % Scale = 0

Ceil(a, b) == (a + b - 1) \div b

C1_Numbered ==
    LoanCalled =>
        /\ Len(Rows) = i
        /\ Len(Rows) <= 60
        /\ \A k \in 1..Len(Rows) : Rows[k].payment_number = k

C1_Step ==
    i' /= i => /\ i < 60
               /\ remaining_balance > 0
               /\ i' = i + 1
               /\ Len(Rows') = Len(Rows) + 1

\* C1: calcConstantMonthlyLoanPayments terminates for every input: a call
\* that entered the loop always returns; every iteration is taken with
\* i < 60 and remaining_balance > 0 and adds exactly 1 to i and one row; the
\* schedule never has more than 60 rows, and they are numbered 1..n in order.
C1_Terminates ==
    /\ []C1_Numbered
    /\ [][C1_Step]_vars
    /\ (loan_pc = "loop") ~> (loan_pc = "done")

\* A call whose payment never covers the interest returned at the cap.
C1_Witness ==
    /\ LoanDone
    /\ calc_arg.monthly_payment > 0
    /\ remaining_balance > calc_arg.starting_balance
    /\ Len(Rows) = 60

\* C2 as stated: the warning is printed exactly when 60 payments were
\* computed and the balance is still positive; a schedule paid off on
\* payment 60 prints none.
C2_Original ==
    LoanDone => (warned <=> (Len(Rows) = 60 /\ remaining_balance > 0))

\* C2 (amended): the warning is printed exactly when 60 payments were
\* computed, whether or not the 60th paid the balance off.  Whenever the
\* balance is still positive at the return, 60 rows were returned and the
\* warning was printed; a schedule of fewer than 60 rows ends with a balance
\* <= 0 and prints no warning.
C2_CapDiagnostic ==
    LoanDone =>
        /\ warned <=> Len(Rows) = 60
        /\ remaining_balance > 0 => (warned /\ Len(Rows) = 60)
        /\ Len(Rows) < 60 => (~warned /\ remaining_balance <= 0)

\* A schedule paid off exactly on payment 60, with the warning printed.
C2_Witness ==
    /\ LoanDone
    /\ Len(Rows) = 60
    /\ remaining_balance = 0
    /\ warned

C3_Schedule ==
    /\ Len(Rows) = Ceil(calc_arg.starting_balance, calc_arg.monthly_payment)
    /\ get_total_payments(Rows) = calc_arg.starting_balance
    /\ \A k \in 1..Len(Rows) :
          IF k = Len(Rows) THEN Rows[k].balance_after_payment = 0
          ELSE Rows[k].balance_after_payment > 0

C3_Inputs ==
    /\ calc_arg.apr = 0
    /\ calc_arg.monthly_payment > 0
    /\ calc_arg.starting_balance > 0
    /\ calc_arg.starting_balance <= 60 * calc_arg.monthly_payment

\* C3 as stated: for apr = 0, monthlyPayment > 0 and 0 < startingBalance <=
\* 60 * monthlyPayment the schedule has ceil(startingBalance/monthlyPayment)
\* rows, their monthlyPayment fields sum to startingBalance exactly, and
\* balanceAfterPayment is 0 in the last row and > 0 in every earlier row.
C3_Original == (LoanDone /\ C3_Inputs) => C3_Schedule

\* C3 (amended): the same, for startingBalance and monthlyPayment that are
\* whole numbers (no fractional part).
C3_WholeAmounts ==
    (/\ LoanDone
     /\ C3_Inputs
     /\ WholeDollars(calc_arg.starting_balance)
     /\ WholeDollars(calc_arg.monthly_payment)) => C3_Schedule

\* 2.00 paid off by two payments of 1.00.
C3_Witness ==
    /\ LoanDone
    /\ C3_Inputs
    /\ WholeDollars(calc_arg.starting_balance)
    /\ WholeDollars(calc_arg.monthly_payment)
    /\ Len(Rows) >= 2

C4_Rows ==
    (LoanCalled /\ PositiveInputs) =>
        /\ \A k \in 1..Len(Rows) :
              /\ Rows[k].balance_after_payment >= 0
              /\ Rows[k].balance_after_payment_plus_interest >= 0
              /\ Rows[k].monthly_payment < Round2(calc_arg.monthly_payment)
                    => (k = Len(Rows) /\ remaining_balance <= 0)
        /\ balance_after_payment >= 0
        /\ balance_after_payment_plus_interest >= 0

C4_Step ==
    (i' /= i /\ PositiveInputs) =>
        /\ nxt_monthly_payment' =
               Min(calc_arg.monthly_payment, remaining_balance)
        /\ Rows'[i'].monthly_payment = Round2(nxt_monthly_payment')

\* C4: for monthlyPayment > 0, apr >= 0 and startingBalance > 0 the payment
\* applied in every row is min(requested monthlyPayment, remainingBalance),
\* so balanceAfterPayment and balanceAfterPaymentPlusInterest are >= 0 in
\* every row, and a row that pays less than the requested monthlyPayment is
\* the last row of the schedule.
C4_Clamped == []C4_Rows /\ [][C4_Step]_vars

\* A schedule of several rows whose last payment was clamped.
C4_Witness ==
    /\ LoanDone
    /\ PositiveInputs
    /\ Len(Rows) >= 2
    /\ nxt_monthly_payment < calc_arg.monthly_payment
    /\ Rows[Len(Rows)].monthly_payment < Round2(calc_arg.monthly_payment)

NonIncreasing ==
    \A k \in 1..(Len(Rows) - 1) :
        Rows[k + 1].remaining_balance <= Rows[k].remaining_balance

\* C5 as stated: for startingBalance > 0, monthlyPayment > 0 and apr >= 0
\* the remainingBalance of consecutive rows never increases.
C5_Original == (LoanCalled /\ PositiveInputs) => NonIncreasing

\* Either apr = 0, or the payment exceeds the first month's interest,
\* (startingBalance - monthlyPayment) * apr / 1200, by at least one cent
\* (apr is a whole multiple of 12 here).
InterestCovered ==
    \/ calc_arg.apr = 0
    \/ (calc_arg.starting_balance - calc_arg.monthly_payment)
           * (calc_arg.apr \div 12)
         <= 100 * Scale * (calc_arg.monthly_payment - UnitsPerCent)

\* C5 (amended): for startingBalance > 0, monthlyPayment > 0 and apr >= 0
\* with apr = 0 or (startingBalance - monthlyPayment) * apr / 1200 <=
\* monthlyPayment - 0.01 (the payment covers the first month's interest
\* with a cent to spare) the remainingBalance of consecutive rows never
\* increases.
C5_NonIncreasing ==
    (LoanCalled /\ PositiveInputs /\ InterestCovered) => NonIncreasing

\* A schedule with interest, of several rows, whose balance went down.
C5_Witness ==
    /\ LoanDone
    /\ PositiveInputs
    /\ InterestCovered
    /\ calc_arg.apr > 0
    /\ Len(Rows) >= 3
    /\ Rows[Len(Rows)].remaining_balance < Rows[1].remaining_balance

(***************************************************************************)
(* Claims about the formulas and the registry.                             *)
(***************************************************************************)
Called(f) == pc = "called" /\ selected.calc_function = f

Sentinel == Return(DEFAULT_INVEST_SUGGESTION)

\* r is the sizing of target_balance against price, bought at current_price:
\* SharesToBuy is target_balance / price and InvestmentValue is
\* current_price * SharesToBuy, each to the nearest unit.
Sized(r, current_price, price, target_balance) ==
    /\ r.tag = "return"
    /\ 2 * Abs(r.value.SharesToBuy * price - target_balance * Scale)
          <= Abs(price)
    /\ 2 * Abs(r.value.InvestmentValue * Scale
                 - current_price * r.value.SharesToBuy) <= Scale
    /\ r.value.WillReachTargetBalanceAtPrice = price
    /\ r.value.CurrentPrice = current_price
    /\ r.value.TargetBalance = target_balance

\* currentPrice * (currentPrice / oldPrice), for oldPrice /= 0.
Projected(current_price, old_price) ==
    FMul(current_price, FDiv(current_price, old_price))

\* C6: investGivenTargetPrice returns the sentinel and does not raise for
\* targetPrice = 0; investGivenPreviousGrowth returns the sentinel and does
\* not raise for oldPrice /= 0 with a projected price of 0; for a non-zero
\* target or projected price they return sharesToBuy = targetBalance / price
\* and investmentValue = currentPrice * sharesToBuy.
C6_Sentinel ==
    /\ Called("calc_invest_given_target_price") =>
          IF calc_arg.target_price = 0 THEN result = Sentinel
          ELSE Sized(result, calc_arg.current_price, calc_arg.target_price,
                     calc_arg.target_balance)
    /\ (Called("calc_invest_given_previous_growth") /\ calc_arg.old_price /= 0) =>
          IF Projected(calc_arg.current_price, calc_arg.old_price) = 0
          THEN result = Sentinel
          ELSE Sized(result, calc_arg.current_price,
                     Projected(calc_arg.current_price, calc_arg.old_price),
                     calc_arg.target_balance)

\* The sentinel for a projected price that is 0 although neither price is.
C6_Witness ==
    /\ Called("calc_invest_given_previous_growth")
    /\ calc_arg.old_price /= 0
    /\ calc_arg.current_price /= 0
    /\ result = Sentinel

\* C7: for oldPrice = 0, whatever the other inputs (currentPrice = 0
\* included), investGivenPreviousGrowth and investForMissedOpportunity end
\* in ZeroDivisionError: the call raises it and returns nothing.
C7_DivideByZero ==
    ((Called("calc_invest_given_previous_growth")
        \/ Called("calc_invest_for_missed_opportunity"))
     /\ calc_arg.old_price = 0) => result = Raise("ZeroDivisionError")

\* The missed-opportunity formula called with both prices 0.
C7_Witness ==
    /\ Called("calc_invest_for_missed_opportunity")
    /\ calc_arg.old_price = 0
    /\ calc_arg.current_price = 0
    /\ result.tag = "raise"

Flagged(arg_specs) == {f \in DOMAIN arg_specs : arg_specs[f]}

\* C8: for each of the five scenario kinds the fields flagged in the schema
\* the registry returns, minus verbose, are exactly the formal parameters
\* (verbose aside) of the formula returned with it, and a call with one
\* value per schema field plus verbose never fails to bind its arguments.
C8_SchemaMatchesParams ==
    /\ pc \in {"selected", "called"} =>
          Flagged(selected.arg_specs) \ {"verbose"}
             = ParamSet(selected.calc_function) \ {"verbose"}
    /\ pc = "called" => result /= Raise("TypeError")

\* All five kinds are looked up; this one was called and returned.
C8_Witness ==
    /\ Called("calc_invest_potential_investment")
    /\ case = POTENTIAL_INVESTMENT
    /\ DOMAIN calc_arg = Flagged(selected.arg_specs)
    /\ result.tag = "return"

\* C9: get_calc_function called with a kind that is none of the five
\* members fails with an error; it returns neither another scenario's
\* formula nor an empty result.
C9_InvalidScenario ==
    (pc /= "start" /\ case \notin CalcTypeMembers) =>
        (selected.tag = "raise" /\ selected /= None)

(***************************************************************************)
(* Claims about the interactive loop.                                      *)
(***************************************************************************)
\* The except clause ran: the failure was logged and the loop goes on.
Reported ==
    /\ pc = "loop_test"
    /\ log.kind = "error"
    /\ input_value = -2

NotInvoked == result = None /\ loan_pc = "idle"

\* The loop ends only on 'exit' or -1 read at the menu prompt.
C10_Exit ==
    (pc /= "exited" /\ pc' = "exited") =>
        \/ pc = "menu" /\ inpt' = ExitTok
        \/ pc = "loop_test" /\ inpt = IntTok(-1) /\ input_value = -1

\* The line just read does not pass the validator of the current prompt.
InvalidLine ==
    LET v == Validate(AcceptedArguments(selected.arg_specs)[arg_idx], inpt')
    IN  inpt' /= ExitTok /\ ~(v.tag = "return" /\ v.value[1])

\* Each failure of a scenario run is reported, with no formula invoked,
\* and each report is followed by the menu prompt.  An invalid line at an
\* argument prompt is a failure only as the max_retries-th read of it.
C10_Failures ==
    /\ (pc = "menu" /\ inpt'.kind = "int" /\ inpt'.n \notin -1..4)
          => (Reported' /\ NotInvoked')
    /\ (pc = "args" /\ inpt' = ExitTok) => (Reported' /\ NotInvoked')
    /\ (pc = "args" /\ InvalidLine) =>
          IF attempt + 1 = max_retries THEN Reported' /\ NotInvoked'
          ELSE /\ pc' = "args" /\ arg_idx' = arg_idx
               /\ attempt' = attempt + 1 /\ NotInvoked'
    /\ (pc = "args" /\ result'.tag = "raise") => Reported'
    /\ (pc = "loop_test" /\ log.kind = "error") => pc' = "menu"

\* A formula is invoked only with every schema field read and valid.
C10_Complete ==
    (pc = "args" /\ (result' /= None \/ loan_pc' /= "idle")) =>
        /\ DOMAIN calc_arg' = ParamSet(selected.calc_function)
        /\ \A f \in DOMAIN calc_arg' \ {"verbose"} :
              \E t \in ArgTokens :
                  /\ Validate(f, t).tag = "return"
                  /\ Validate(f, t).value = <<TRUE, calc_arg'[f]>>

\* C10: the menu loop ends only when -1 or 'exit' is entered at the menu
\* prompt; a menu number outside 0..4, 'exit' or exhausted retries at an
\* argument prompt (each prompt is read at most max_retries times) and an
\* error raised by the formula are each reported, after which the loop is
\* back at the menu prompt, and no formula is invoked on partial input.
C10_MenuLoop ==
    /\ [](pc = "args" => attempt < max_retries)
    /\ [][C10_Exit]_vars
    /\ [][C10_Failures]_vars
    /\ [][C10_Complete]_vars

\* The third invalid line at an argument prompt was reported.
C10_Witness ==
    /\ Reported
    /\ NotInvoked
    /\ selected /= None
    /\ attempt = max_retries
    /\ log.msg = "Reached max retries or entered 'exit' "

=============================================================================
